---- MODULE Spec2Model ----
(***************************************************************************)
(* Model of the lab-component borrowing backend (src/app.py).              *)
(*                                                                         *)
(* The state is the three MongoDB collections the handlers use             *)
(* (components, student_teams, counters), the wall clock, and one record   *)
(* per request handler in flight.  Every database operation of a handler   *)
(* is one step, so that concurrent handlers interleave exactly where the   *)
(* server lets them.  Strings are sequences of one-character strings, so   *)
(* formatting and slicing are computed as Python computes them.            *)
(***************************************************************************)
EXTENDS Integers, Sequences, FiniteSets, TLC

(* ------------------------------ bounds -------------------------------- *)

MaxAvail == 2
MaxQty == 2
MaxSeq == 2
MaxIssued == 1

\* The workers of the server: each runs one request handler at a time.
Procs == {1, 2}

(* --------------------------- the world -------------------------------- *)

\* Ids of the documents of the components collection (never created or
\* deleted by app.py).
Components == {1, 2}

\* The stock the components collection starts with: the first component is
\* in stock, the second is out of stock.
InitialStock(c) == IF c = 1 THEN MaxAvail ELSE 0

\* component_id values a client can send: a stored id, an id that is not
\* stored, and a falsy one.
UnknownComp == 9
FalsyComp == 0
CompInputs == Components \cup {UnknownComp, FalsyComp}

\* Teams stored in student_teams, each with one member.
TeamNumbers == {"IPA001", "IPR002"}
UnknownTeam == "IPA999"
MemberOf(t) == IF t = "IPA001" THEN "A101" ELSE "B202"

Instructor == "hema"

\* The day the model runs on, in days since 1970-01-01: the last day of a
\* year, so that a loan period ends in the next year.  The calendar has no
\* leap days.
StartDay == 56 * 365 - 1

(* --------------------------- text ------------------------------------- *)

DigitChar(d) == <<"0", "1", "2", "3", "4", "5", "6", "7", "8", "9">>[d + 1]

RECURSIVE Str(_)
\* str(n) / "{n}" for n >= 0
Str(n) == IF n < 10 THEN <<DigitChar(n)>> ELSE Str(n \div 10) \o <<DigitChar(n % 10)>>

RECURSIVE ZeroPad(_, _)
\* "{:0w d}": zeros on the left up to width w, never truncating
ZeroPad(s, w) == IF Len(s) >= w THEN s ELSE ZeroPad(<<"0">> \o s, w)

\* s[-k:]
LastChars(s, k) == IF Len(s) <= k THEN s ELSE SubSeq(s, Len(s) - k + 1, Len(s))

DigitVal(ch) == CHOOSE d \in 0..9 : DigitChar(d) = ch

RECURSIVE ParseInt(_)
ParseInt(s) == IF Len(s) = 0 THEN 0
               ELSE 10 * ParseInt(SubSeq(s, 1, Len(s) - 1)) + DigitVal(s[Len(s)])

(* --------------------------- time ------------------------------------- *)

\* datetime.utcnow().year
Year(d) == 1970 + d \div 365

MonthLengths == <<31, 28, 31, 30, 31, 30, 31, 31, 30, 31, 30, 31>>

RECURSIVE MonthDay(_, _)
\* <<month, day of month>> of the 0-based day of year k, from month m on
MonthDay(k, m) == IF k < MonthLengths[m] THEN <<m, k + 1>>
                  ELSE MonthDay(k - MonthLengths[m], m + 1)

\* datetime.strftime('%Y%m%d')
StrfYmd(d) == Str(Year(d)) \o ZeroPad(Str(MonthDay(d % 365, 1)[1]), 2)
                           \o ZeroPad(Str(MonthDay(d % 365, 1)[2]), 2)

\* datetime.isoformat(): the text of the date
IsoFormat(d) == Str(Year(d)) \o <<"-">> \o ZeroPad(Str(MonthDay(d % 365, 1)[1]), 2)
                             \o <<"-">> \o ZeroPad(Str(MonthDay(d % 365, 1)[2]), 2)

\* d + timedelta(days=n)
PlusDays(d, n) == d + n

\* A stored date: a BSON date (a datetime was stored) or a string (the
\* isoformat() text was stored); text is the date either way.
StoredDate(d) == [type |-> "date", text |-> IsoFormat(d)]
StoredIso(d) == [type |-> "string", text |-> IsoFormat(d)]
NoDate == [type |-> "absent", text |-> <<>>]

RECURSIVE DaysBefore(_)
\* days of the year before month m
DaysBefore(m) == IF m = 1 THEN 0 ELSE DaysBefore(m - 1) + MonthLengths[m - 1]

\* the day number a date text "YYYY-MM-DD" denotes
ParseDate(text) ==
    (ParseInt(SubSeq(text, 1, 4)) - 1970) * 365
      + DaysBefore(ParseInt(SubSeq(text, 6, 7))) + ParseInt(SubSeq(text, 9, 10)) - 1

(* --------------------------- tokens ----------------------------------- *)

\* The payload generate_token signs (exp left out: token_required has
\* already accepted the token when a handler runs).
generate_token(roll_number, team_number, role) ==
    [roll_number |-> roll_number, team_number |-> team_number, role |-> role]

\* Payloads of the instructor tokens token_required('instructor') lets
\* through: the one instructor_login issues, and one signed with the same
\* secret by another issuer that also carries the key 'username'.
LoginInstructorToken == generate_token(Instructor, "", "instructor")
ExternalInstructorToken ==
    [roll_number |-> Instructor, team_number |-> "", role |-> "instructor",
     username |-> Instructor]
InstructorTokens == {LoginInstructorToken, ExternalInstructorToken}

\* current_user['username'] raises KeyError on a payload without the key
HasUsername(tok) == "username" \in DOMAIN tok

(* --------------------------- ids -------------------------------------- *)

\* f"REQ{year}-{counter['seq']:03d}"
FormatReqId(year, n) == <<"R", "E", "Q">> \o Str(year) \o <<"-">> \o ZeroPad(Str(n), 3)

\* f"ISS{datetime.utcnow().strftime('%Y%m%d')}-{request_id[-4:]}"
AcceptIssueId(d, request_id) == <<"I", "S", "S">> \o StrfYmd(d) \o <<"-">> \o LastChars(request_id, 4)

\* f"ISS{datetime.utcnow().year}-{issue_seq:03d}"
ApproveIssueId(d, issue_seq) == <<"I", "S", "S">> \o Str(Year(d)) \o <<"-">> \o ZeroPad(Str(issue_seq), 3)

\* Mutation of IncSeq: {'$set': {'seq': 1}} in place of $inc
IncSeqSet(s) == 1

\* {'$inc': {'seq': 1}} with ReturnDocument.AFTER
IncSeq(s) == s + 1

(* --------------------------- state ------------------------------------ *)

VARIABLES
    available,    \* components collection: id -> 'available'
    teams,        \* student_teams collection: ipa_ipr_no -> document
    seq,          \* counters document 'request_id': its 'seq'
    now,          \* the wall clock, in days (a run of the model is one day)
    pc,           \* per handler: where it stands
    loc,          \* per handler: its arguments and local variables
    response,     \* the last response a handler returned
    available0    \* history: 'available' of the first state

vars == <<available, teams, seq, now, pc, loc, response, available0>>

\* The 'resolution' of a request: absent, an array of {by, at} (what $push
\* makes) or one object {by, at} (what $set of resolution.by makes).
NoResolution == [kind |-> "absent", entries |-> <<>>]

NoRequest ==
    [request_id |-> <<>>, component_id |-> 0, quantity |-> 0, requested_by |-> "",
     status |-> "", resolution |-> NoResolution, processed_by |-> "",
     processed_at |-> NoDate]

NoLoc ==
    [team |-> "", tok |-> [role |-> ""], comp_id |-> 0, qty |-> 0, req_id |-> <<>>,
     action |-> "", days |-> 0, request_index |-> 0, target |-> NoRequest,
     stale |-> {}, peers |-> {}, issued_len |-> 0, members |-> <<>>]

\* No response sent yet
NoResponse == 0

\* standard_response(success, message, data, status_code): the status code
\* (success is status_code < 400 at every call site; the message is named
\* where the model sends the response)
standard_response(message, status_code) == status_code

\* The response Flask itself makes when a view raises an exception nothing
\* catches: the status code, the sign marking that it is not a
\* standard_response.
FlaskError(status_code) == 0 - status_code

Init ==
    /\ available = [c \in Components |-> InitialStock(c)]
    /\ available0 = available
    /\ teams = [t \in TeamNumbers |->
                  [members |-> <<MemberOf(t)>>, component_requests |-> <<>>,
                   issued_components |-> <<>>, return_history |-> <<>>]]
    /\ seq = 0
    /\ now = StartDay
    /\ pc = [p \in Procs |-> "idle"]
    /\ loc = [p \in Procs |-> NoLoc]
    /\ response = NoResponse

(* --------------------------- store helpers ---------------------------- *)

TeamDoc(t) == <<"team", t>>
CompDoc(c) == <<"comp", c>>

\* Handlers inside a multi-document transaction
InTxn(q) == pc[q] \in {"p_reject", "p_inventory", "p_team"}

\* The component document a transaction has written and not yet committed
LockedBy(q) == IF pc[q] = "p_team" THEN {CompDoc(loc[q].target.component_id)} ELSE {}
Locked(d) == \E q \in Procs : d \in LockedBy(q)

\* The documents the transaction of handler q writes: the team document,
\* and for accept the component document before it.
WriteSet(l, q) ==
    {TeamDoc(l[q].team)} \cup
      (IF l[q].action = "accept" THEN {CompDoc(l[q].target.component_id)} ELSE {})

\* loc after handler p commits writes to the documents ds: the snapshot of
\* every other open transaction is now older than those documents, which
\* matters for the ones it is going to write.
Touch(l, p, ds) ==
    [q \in Procs |-> IF q # p /\ InTxn(q)
                       THEN [l[q] EXCEPT !.stale = @ \cup (ds \cap WriteSet(l, q))]
                       ELSE l[q]]

\* The server hands a new request to its first free worker.
Free(p) == pc[p] = "idle" /\ \A q \in Procs : q < p => pc[q] # "idle"

\* A handler returns: its locals are gone, its response is sent.
Return(p, l, status_code, message) ==
    /\ pc' = [pc EXCEPT ![p] = "idle"]
    /\ loc' = [l EXCEPT ![p] = NoLoc]
    /\ response' = standard_response(message, status_code)

\* A view raises and nothing catches it: the worker answers for it.
Raise(p, l) ==
    /\ pc' = [pc EXCEPT ![p] = "idle"]
    /\ loc' = [l EXCEPT ![p] = NoLoc]
    /\ response' = FlaskError(500)

(* --------------------------- POST /api/student/request ---------------- *)

\* Mutation of ExceedsStock: the comparison is off by one
ExceedsStockByTwo(qty, a) == qty > a + 1

\* if qty > comp.get('available', 0)
ExceedsStock(qty, a) == qty > a

\* handlers that will still draw a request id
PendingAllocations == Cardinality({q \in Procs : pc[q] = "s_counter"})

\* Lines 156-169 for one request body: validation, the read of
\* 'available', the stock check.  The caller is the member of team t
\* (student_login issued the token).
S_CallWith(p, t, comp_id, qty) ==
    /\ Free(p)
    /\ IF comp_id = FalsyComp \/ qty < 1
         THEN Return(p, loc, 400, "Valid component ID and quantity required")
       ELSE IF comp_id \notin Components
         THEN Return(p, loc, 404, "Component not found")
       ELSE IF ExceedsStock(qty, available[comp_id])
         THEN Return(p, loc, 400, "Only n available")
       ELSE /\ seq + PendingAllocations < MaxSeq
            /\ loc' = [loc EXCEPT ![p] =
                         [NoLoc EXCEPT !.team = t, !.comp_id = comp_id, !.qty = qty,
                            !.tok = generate_token(teams[t].members[1], t, "student")]]
            /\ pc' = [pc EXCEPT ![p] = "s_counter"]
            /\ UNCHANGED response
    /\ UNCHANGED <<available, teams, seq, now, available0>>

\* The request bodies the model sends: every well-formed one, and one for
\* each way of being malformed.
S_Inputs ==
    ((DOMAIN teams) \X Components \X (1..MaxQty))
      \cup {<<"IPA001", FalsyComp, 1>>, <<"IPA001", 1, 0>>, <<"IPA001", UnknownComp, 1>>}

S_Call(p) == \E in \in S_Inputs : S_CallWith(p, in[1], in[2], in[3])

\* Lines 171-178: the year, the atomic increment of the counter, the id.
S_Counter(p) ==
    /\ pc[p] = "s_counter"
    /\ seq' = IncSeq(seq)
    /\ loc' = [loc EXCEPT ![p].req_id = FormatReqId(Year(now), seq')]
    /\ pc' = [pc EXCEPT ![p] = "s_push"]
    /\ UNCHANGED <<available, teams, now, response, available0>>

\* new_req of lines 180-189 (name, notes and request_date carry no logic)
NewRequest(req_id, comp_id, qty, roll) ==
    [request_id |-> req_id, component_id |-> comp_id, quantity |-> qty,
     requested_by |-> roll, status |-> "pending", resolution |-> NoResolution,
     processed_by |-> "", processed_at |-> NoDate]

\* Mutation of PushRequest: $set in place of $push
SetRequest(doc, req) == [doc EXCEPT !.component_requests = <<req>>]

\* {'$push': {'component_requests': new_req}}
PushRequest(doc, req) == [doc EXCEPT !.component_requests = Append(@, req)]

\* Lines 191-194: the request is appended to the caller's team.
S_Push(p) ==
    /\ pc[p] = "s_push"
    /\ LET t == loc[p].tok.team_number IN
         /\ teams' = IF t \in DOMAIN teams
                       THEN [teams EXCEPT ![t] = PushRequest(@,
                               NewRequest(loc[p].req_id, loc[p].comp_id, loc[p].qty,
                                          loc[p].tok.roll_number))]
                       ELSE teams
         /\ loc' = Touch(loc, p, {TeamDoc(t)})
    /\ pc' = [pc EXCEPT ![p] = "s_dec"]
    /\ UNCHANGED <<available, seq, now, response, available0>>

\* Mutation of Reserve: the stock goes down by one unit per request
ReserveUnit(a, qty) == a - 1

\* {'$inc': {'available': -qty}}
Reserve(a, qty) == a - qty

\* Lines 196-198: the stock is decremented and the handler answers 201.  A
\* write outside a transaction waits while a transaction holds the document.
S_Dec(p) ==
    /\ pc[p] = "s_dec"
    /\ ~Locked(CompDoc(loc[p].comp_id))
    /\ available' = [available EXCEPT ![loc[p].comp_id] = Reserve(@, loc[p].qty)]
    /\ Return(p, Touch(loc, p, {CompDoc(loc[p].comp_id)}), 201, "Request submitted")
    /\ UNCHANGED <<teams, seq, now, available0>>

(* ---------- POST /api/instructor/teams/<team_number>/process-request --- *)

\* request_id values a client can send: the ids stored, one that is not, and
\* a missing one.
StoredRequestIds ==
    UNION {{teams[t].component_requests[i].request_id :
               i \in 1..Len(teams[t].component_requests)} : t \in DOMAIN teams}
AbsentRequestId == <<"R", "E", "Q", "0">>
RequestIdInputs == StoredRequestIds \cup {AbsentRequestId, <<>>}

Min(S) == CHOOSE x \in S : \A y \in S : x <= y

\* Mutation of FindPending: the lookup without the test of the status
FindAnyStatus(reqs, request_id) ==
    LET hits == {i \in 1..Len(reqs) : reqs[i].request_id = request_id}
    IN IF hits = {} THEN 0 ELSE Min(hits)

\* Lines 379-383: the index of the first request with this id that is
\* pending; 0 when next() falls back to (None, None).
FindPending(reqs, request_id) ==
    LET hits == {i \in 1..Len(reqs) :
                   reqs[i].request_id = request_id /\ reqs[i].status = "pending"}
    IN IF hits = {} THEN 0 ELSE Min(hits)

\* History: every accept call still running on (team, request_id) notes
\* the outcome of an accept call on the same request that ends meanwhile.
NotePeer(l, p, team, request_id, outcome) ==
    [q \in Procs |->
        IF q # p /\ pc[q] \in {"p_inventory", "p_team"}
             /\ l[q].team = team /\ l[q].req_id = request_id
          THEN [l[q] EXCEPT !.peers = @ \cup {outcome}]
          ELSE l[q]]

\* Lines 358-412 for one request: validation, the start of the
\* transaction, the reads of the team and (accept) of the component from
\* the transaction's snapshot.  The reject branch builds its update before
\* it sends it: a payload without 'username' raises there, the transaction
\* aborts with nothing written and the handler answers 500 (lines 451-453).
P_CallWith(p, team_number, request_id, action, tok) ==
    /\ Free(p)
    /\ IF request_id = <<>> \/ action \notin {"accept", "reject"}
         THEN Return(p, loc, 400, "Invalid request")
       ELSE IF team_number \notin DOMAIN teams
         THEN Return(p, loc, 404, "Team not found")
       ELSE
         LET reqs == teams[team_number].component_requests
             request_index == FindPending(reqs, request_id)
             target_request == reqs[request_index]
             started == [NoLoc EXCEPT !.team = team_number, !.tok = tok,
                                      !.req_id = request_id, !.action = action,
                                      !.request_index = request_index,
                                      !.target = target_request]
         IN
         IF request_index = 0
           THEN Return(p, loc, 404, "No pending request found")
         ELSE IF action = "reject"
           THEN IF ~HasUsername(tok)
                  THEN Return(p, loc, 500, "Processing failed")
                  ELSE /\ pc' = [pc EXCEPT ![p] = "p_reject"]
                       /\ loc' = [loc EXCEPT ![p] = started]
                       /\ UNCHANGED response
         ELSE IF \/ target_request.component_id \notin Components
                 \/ available[target_request.component_id] < target_request.quantity
           THEN Return(p, NotePeer(loc, p, team_number, request_id, "error"),
                       400, "Component unavailable")
         ELSE /\ pc' = [pc EXCEPT ![p] = "p_inventory"]
              /\ loc' = [loc EXCEPT ![p] = started]
              /\ UNCHANGED response
    /\ UNCHANGED <<available, teams, seq, now, available0>>

ActionInputs == {"accept", "reject", "hold"}

\* The requests the model sends: every one that names a stored team, and
\* one for each way of failing before the team is read.
P_Inputs ==
    ((DOMAIN teams) \X (RequestIdInputs \ {<<>>}) \X {"accept", "reject"} \X InstructorTokens)
      \cup {<<UnknownTeam, AbsentRequestId, "hold", LoginInstructorToken>>,
            <<UnknownTeam, <<>>, "accept", LoginInstructorToken>>,
            <<UnknownTeam, AbsentRequestId, "accept", LoginInstructorToken>>}

P_Call(p) == \E in \in P_Inputs : P_CallWith(p, in[1], in[2], in[3], in[4])

\* Lines 390-402: status and resolution of the rejected request
RejectUpdate(doc, i, by, at) ==
    [doc EXCEPT !.component_requests[i].status = "rejected",
                !.component_requests[i].resolution =
                    [kind |-> "array", entries |-> Append(@.entries, [by |-> by, at |-> at])]]

\* Lines 389-403: the write of the reject branch and the commit.  A write
\* conflict on the team document aborts the transaction and is answered
\* 500 (lines 451-453).
P_Reject(p) ==
    /\ pc[p] = "p_reject"
    /\ LET t == loc[p].team IN
         IF TeamDoc(t) \in loc[p].stale
           THEN /\ Return(p, loc, 500, "Processing failed")
                /\ UNCHANGED teams
           ELSE /\ teams' = [teams EXCEPT ![t] =
                               RejectUpdate(@, loc[p].request_index,
                                            loc[p].tok.username, StoredIso(now))]
                /\ Return(p, Touch(loc, p, {TeamDoc(t)}), 200, "Request rejected")
    /\ UNCHANGED <<available, seq, now, available0>>

\* Mutation of UncommittedInventory: the write goes out without the session
\* and is applied at once
WriteThrough(a, c, qty) == [a EXCEPT ![c] = @ - qty]

\* What the components collection shows of the write of lines 418-422
\* while the transaction is open: nothing, the write carries the session.
UncommittedInventory(a, c, qty) == a

\* {'$inc': {'available': -quantity}} once the transaction commits
CommittedInventory(a, c, qty) == [a EXCEPT ![c] = @ - qty]

\* Lines 414-422: the decrement of the stock inside the transaction.  It
\* conflicts when the component changed after the snapshot or when another
\* open transaction has written it.
P_Inventory(p) ==
    /\ pc[p] = "p_inventory"
    /\ LET c == loc[p].target.component_id IN
         IF CompDoc(c) \in loc[p].stale \/ Locked(CompDoc(c))
           THEN /\ Return(p, NotePeer(loc, p, loc[p].team, loc[p].req_id, "error"),
                          500, "Processing failed")
                /\ UNCHANGED available
           ELSE /\ available' = UncommittedInventory(available, c, loc[p].target.quantity)
                /\ pc' = [pc EXCEPT ![p] = "p_team"]
                /\ UNCHANGED <<loc, response>>
    /\ UNCHANGED <<teams, seq, now, available0>>

\* Mutation of AcceptIssued: the item is stored with the status of a
\* returned one
AcceptIssuedReturned(request, d, by) ==
    [issue_id |-> AcceptIssueId(d, request.request_id),
     component_id |-> request.component_id, quantity |-> request.quantity,
     issue_date |-> StoredIso(d), issued_by |-> by,
     expected_return |-> StoredIso(PlusDays(d, 14)),
     request_id |-> <<>>, status |-> "returned"]

\* The issued_components entry of lines 434-443 (it has no request_id)
AcceptIssued(request, d, by) ==
    [issue_id |-> AcceptIssueId(d, request.request_id),
     component_id |-> request.component_id, quantity |-> request.quantity,
     issue_date |-> StoredIso(d), issued_by |-> by,
     expected_return |-> StoredIso(PlusDays(d, 14)),
     request_id |-> <<>>, status |-> "issued"]

\* Lines 425-447: status, resolution and the issued item in one update
AcceptUpdate(doc, i, request, d, by) ==
    [doc EXCEPT !.component_requests[i].status = "accepted",
                !.component_requests[i].resolution =
                    [kind |-> "object", entries |-> <<[by |-> by, at |-> StoredIso(d)]>>],
                !.issued_components = Append(@, AcceptIssued(request, d, by))]

\* Lines 424-449: the update of the team and the commit.  An exception
\* while building the update (current_user['username']) or a write conflict
\* aborts the transaction: the decrement is discarded with it.
P_Team(p) ==
    /\ pc[p] = "p_team"
    /\ LET t == loc[p].team
           c == loc[p].target.component_id
       IN
         IF ~HasUsername(loc[p].tok) \/ TeamDoc(t) \in loc[p].stale
           THEN /\ Return(p, NotePeer(loc, p, t, loc[p].req_id, "error"),
                          500, "Processing failed")
                /\ UNCHANGED <<available, teams>>
           ELSE /\ available' = CommittedInventory(available, c, loc[p].target.quantity)
                /\ teams' = [teams EXCEPT ![t] =
                               AcceptUpdate(@, loc[p].request_index, loc[p].target,
                                            now, loc[p].tok.username)]
                /\ Return(p, NotePeer(Touch(loc, p, {TeamDoc(t), CompDoc(c)}),
                                      p, t, loc[p].req_id, "success"),
                          200, "Request processed successfully")
    /\ UNCHANGED <<seq, now, available0>>

(* --------------------------- POST /api/instructor/approve ------------- *)

\* handlers that will still push an issued item to team t
PendingIssues(t) == Cardinality({q \in Procs : pc[q] = "a_push" /\ loc[q].team = t})

\* return_days values a client can send (14 when it sends none)
ReturnDaysInputs == {14}

\* The positional operator $: the first request with this id; 0 if none
FindRequest(reqs, request_id) ==
    LET hits == {i \in 1..Len(reqs) : reqs[i].request_id = request_id}
    IN IF hits = {} THEN 0 ELSE Min(hits)

\* Lines 469-475: the $set of find_one_and_update
ApproveUpdate(doc, i, d, by) ==
    [doc EXCEPT !.component_requests[i].status = "approved",
                !.component_requests[i].processed_at = StoredDate(d),
                !.component_requests[i].processed_by = by]

\* Lines 460-483 for one request: validation and find_one_and_update.
\* The update document reads current_user['username'] outside any try: a
\* payload without the key ends the handler in Flask's 500.
A_CallWith(p, team_no, req_id, days, tok) ==
    /\ Free(p)
    /\ IF team_no = "" \/ req_id = <<>>
         THEN /\ Return(p, loc, 400, "Missing team_number or request_id")
              /\ UNCHANGED teams
       ELSE IF ~HasUsername(tok)
         THEN /\ Raise(p, loc)
              /\ UNCHANGED teams
       ELSE IF team_no \notin DOMAIN teams
         THEN /\ Return(p, loc, 404, "Request not found")
              /\ UNCHANGED teams
       ELSE IF FindRequest(teams[team_no].component_requests, req_id) = 0
         THEN /\ Return(p, loc, 404, "Request not found")
              /\ UNCHANGED teams
       ELSE
         LET i == FindRequest(teams[team_no].component_requests, req_id)
             after == ApproveUpdate(teams[team_no], i, now, tok.username)
         IN /\ Len(teams[team_no].issued_components) + PendingIssues(team_no) < MaxIssued
            /\ teams' = [teams EXCEPT ![team_no] = after]
            /\ pc' = [pc EXCEPT ![p] = "a_push"]
            /\ loc' = [Touch(loc, p, {TeamDoc(team_no)}) EXCEPT ![p] =
                         [NoLoc EXCEPT !.team = team_no, !.tok = tok, !.req_id = req_id,
                            !.days = days, !.target = after.component_requests[i],
                            !.issued_len = Len(after.issued_components)]]
            /\ UNCHANGED response
    /\ UNCHANGED <<available, seq, now, available0>>

\* The requests the model sends: every one that names a stored team with
\* a payload that has 'username', and one for each earlier way of failing.
A_Inputs ==
    ((DOMAIN teams) \X (RequestIdInputs \ {<<>>}) \X ReturnDaysInputs \X {ExternalInstructorToken})
      \cup {<<"", AbsentRequestId, 14, LoginInstructorToken>>,
            <<UnknownTeam, <<>>, 14, LoginInstructorToken>>,
            <<UnknownTeam, AbsentRequestId, 14, LoginInstructorToken>>,
            <<UnknownTeam, AbsentRequestId, 14, ExternalInstructorToken>>}

A_Call(p) == \E in \in A_Inputs : A_CallWith(p, in[1], in[2], in[3], in[4])

\* The issued_components entry of lines 487-497
ApproveIssued(approved, issue_seq, d, days, by, req_id) ==
    [issue_id |-> ApproveIssueId(d, issue_seq),
     component_id |-> approved.component_id, quantity |-> approved.quantity,
     issue_date |-> StoredDate(d), issued_by |-> by,
     expected_return |-> StoredIso(PlusDays(d, days)),
     request_id |-> req_id, status |-> "issued"]

\* Lines 485-502: the issue id from the length of the list read by
\* find_one_and_update, and the push of the issued item.
A_Push(p) ==
    /\ pc[p] = "a_push"
    /\ LET t == loc[p].team IN
         /\ teams' = [teams EXCEPT ![t].issued_components =
                        Append(@, ApproveIssued(loc[p].target, loc[p].issued_len + 1, now,
                                                loc[p].days, loc[p].tok.username,
                                                loc[p].req_id))]
         /\ Return(p, Touch(loc, p, {TeamDoc(t)}), 200, "Approved and issued")
    /\ UNCHANGED <<available, seq, now, available0>>

Next ==
    \/ \E p \in Procs : S_Call(p)
    \/ \E p \in Procs : S_Counter(p)
    \/ \E p \in Procs : S_Push(p)
    \/ \E p \in Procs : S_Dec(p)
    \/ \E p \in Procs : P_Call(p)
    \/ \E p \in Procs : P_Reject(p)
    \/ \E p \in Procs : P_Inventory(p)
    \/ \E p \in Procs : P_Team(p)
    \/ \E p \in Procs : A_Call(p)
    \/ \E p \in Procs : A_Push(p)

Spec == Init /\ [][Next]_vars

(* --------------------------- POST /api/admin/teams -------------------- *)

\* The texts a client sends as team number and as roll number, and their
\* upper-case forms, spelled out
Spell(s) ==
    CASE s = "IPA001" -> <<"I", "P", "A", "0", "0", "1">>
      [] s = "IPA002" -> <<"I", "P", "A", "0", "0", "2">>
      [] s = "ipr003" -> <<"i", "p", "r", "0", "0", "3">>
      [] s = "IPR003" -> <<"I", "P", "R", "0", "0", "3">>
      [] s = "IP1"    -> <<"I", "P", "1">>
      [] s = "A101"   -> <<"A", "1", "0", "1">>
      [] s = "C303"   -> <<"C", "3", "0", "3">>
      [] s = "c303"   -> <<"c", "3", "0", "3">>
      [] s = "S1001"  -> <<"S", "1", "0", "0", "1">>

Texts == {"IPA001", "IPA002", "ipr003", "IPR003", "IP1", "A101", "C303", "c303", "S1001"}

UpperChar(ch) ==
    CASE ch = "a" -> "A" [] ch = "c" -> "C" [] ch = "i" -> "I"
      [] ch = "p" -> "P" [] ch = "r" -> "R" [] OTHER -> ch

\* str.upper()
upper(s) ==
    CHOOSE u \in Texts : Spell(u) = [i \in 1..Len(Spell(s)) |-> UpperChar(Spell(s)[i])]

IsDigit(ch) == ch \in {DigitChar(d) : d \in 0..9}
IsUpperLetter(ch) ==
    ch \in {"A", "B", "C", "D", "E", "F", "G", "H", "I", "J", "K", "L", "M",
            "N", "O", "P", "Q", "R", "S", "T", "U", "V", "W", "X", "Y", "Z"}

\* re.match(r'^(IPA|IPR)\d{3}$', team_number, re.IGNORECASE)
validate_team_number(team_number) ==
    LET c == Spell(team_number) IN
    /\ Len(c) = 6
    /\ <<UpperChar(c[1]), UpperChar(c[2]), UpperChar(c[3])>>
          \in {<<"I", "P", "A">>, <<"I", "P", "R">>}
    /\ \A i \in 4..6 : IsDigit(c[i])

\* re.match(r'^[A-Z]\d{3}$', roll_number)
validate_roll_number(roll_number) ==
    LET c == Spell(roll_number) IN
    /\ Len(c) = 4
    /\ IsUpperLetter(c[1])
    /\ \A i \in 2..4 : IsDigit(c[i])

\* The bodies a client sends: team numbers new, in lower case, stored and
\* malformed; up to two members with roll numbers new, in lower case,
\* stored in another team and malformed.
TeamNumberInputs == {"IPA002", "ipr003", "IPA001", "IP1"}
RollInputs == {"A101", "C303", "c303", "S1001"}
MembersInputs ==
    {<<>>} \cup {<<r>> : r \in RollInputs} \cup {<<r, q>> : r \in RollInputs, q \in RollInputs}

\* Lines 77-99: validation, the lookup of the team number, the members.
T_CallWith(p, ipa_ipr_no, members_input) ==
    /\ Free(p)
    /\ LET team_number == upper(ipa_ipr_no) IN
         IF ~validate_team_number(team_number)
           THEN Return(p, loc, 400, "Invalid team number format")
         ELSE IF Len(members_input) < 1
           THEN Return(p, loc, 400, "At least one member required")
         ELSE IF team_number \in DOMAIN teams
           THEN Return(p, loc, 409, "Team already exists")
         ELSE IF \E i \in 1..Len(members_input) : ~validate_roll_number(upper(members_input[i]))
           THEN Return(p, loc, 400, "Invalid roll number")
         ELSE /\ pc' = [pc EXCEPT ![p] = "t_insert"]
              /\ loc' = [loc EXCEPT ![p] =
                           [NoLoc EXCEPT !.team = team_number,
                              !.members = [i \in 1..Len(members_input) |-> upper(members_input[i])]]]
              /\ UNCHANGED response
    /\ UNCHANGED <<available, teams, seq, now, available0>>

T_Call(p) ==
    \E ipa_ipr_no \in TeamNumberInputs, members_input \in MembersInputs :
       T_CallWith(p, ipa_ipr_no, members_input)

\* the roll numbers in a members array
Rolls(members) == {members[i] : i \in 1..Len(members)}

\* The unique indexes of lines 509-510 refuse the document: its team
\* number is stored, or one of its roll numbers is a key of another
\* document.  A unique multikey index compares documents with each other,
\* never the elements of one array.
DuplicateKey(docs, team_number, members) ==
    \/ team_number \in DOMAIN docs
    \/ \E u \in DOMAIN docs : Rolls(docs[u].members) \cap Rolls(members) # {}

\* team_doc of lines 101-109
TeamDocument(members) ==
    [members |-> members, component_requests |-> <<>>,
     issued_components |-> <<>>, return_history |-> <<>>]

\* Lines 110-111: insert_one and the answer.  DuplicateKeyError is caught
\* nowhere.
T_Insert(p) ==
    /\ pc[p] = "t_insert"
    /\ IF DuplicateKey(teams, loc[p].team, loc[p].members)
         THEN /\ Raise(p, loc)
              /\ UNCHANGED teams
         ELSE /\ teams' = [u \in (DOMAIN teams) \cup {loc[p].team} |->
                             IF u = loc[p].team THEN TeamDocument(loc[p].members)
                                                ELSE teams[u]]
              /\ Return(p, loc, 201, "Team created")
    /\ UNCHANGED <<available, seq, now, available0>>

NextAdmin ==
    \/ \E p \in Procs : T_Call(p)
    \/ \E p \in Procs : T_Insert(p)

\* The server with only its admin route in use
SpecAdmin == Init /\ [][NextAdmin]_vars

(* ====================================================================== *)
(* Properties                                                             *)
(* ====================================================================== *)

Requests(t) == teams[t].component_requests
Issued(t) == teams[t].issued_components

\* the positions <<team, index>> of the stored requests
Slots == {<<t, i>> \in (DOMAIN teams) \X (1..(MaxSeq + 2)) : i <= Len(Requests(t))}

RECURSIVE SumQty(_, _)
\* total quantity of the requests of a list for component c that hold stock
\* (every status but rejected)
SumQty(reqs, c) ==
    IF reqs = <<>> THEN 0
    ELSE (IF Head(reqs).component_id = c /\ Head(reqs).status # "rejected"
            THEN Head(reqs).quantity ELSE 0) + SumQty(Tail(reqs), c)

RECURSIVE SumOver(_, _)
SumOver(ts, c) ==
    IF ts = {} THEN 0
    ELSE LET t == CHOOSE u \in ts : TRUE
         IN SumQty(Requests(t), c) + SumOver(ts \ {t}, c)

\* the quantity the admitted requests hold of component c
Reserved(c) == SumOver(DOMAIN teams, c)

\* the handler p returns in this step
Returns(p) == pc[p] # "idle" /\ pc'[p] = "idle"

\* C1: in every reachable state every component's available count is at
\* least 0.
C1_AvailableNonNegative == \A c \in Components : available[c] >= 0

\* C2: the quantities of the admitted submissions for a component never add
\* up to more than the stock the component had before them (no
\* overselling).
C2_NoOverselling == \A c \in Components : Reserved(c) <= available0[c]

\* the sequence number in a request id: the digits after the dash
SeqNumber(request_id) == ParseInt(SubSeq(request_id, 9, Len(request_id)))

\* the request ids in the system: stored, or drawn and not yet stored
StoredIds == {Requests(sl[1])[sl[2]].request_id : sl \in Slots}
DrawnIds == {loc[p].req_id : p \in {q \in Procs : pc[q] = "s_push"}}

C3_Unique ==
    /\ \A a, b \in Slots :
          a # b => Requests(a[1])[a[2]].request_id # Requests(b[1])[b[2]].request_id
    /\ \A p \in Procs : pc[p] = "s_push" => loc[p].req_id \notin StoredIds
    /\ \A p, q \in Procs :
          (p # q /\ pc[p] = "s_push" /\ pc[q] = "s_push") => loc[p].req_id # loc[q].req_id

C3_Increasing ==
    \A p \in Procs :
       (pc[p] = "s_counter" /\ pc'[p] = "s_push") =>
           \A id \in StoredIds \cup DrawnIds : SeqNumber(loc'[p].req_id) > SeqNumber(id)

\* C3: a submission draws a request id whose sequence number is greater
\* than every sequence number drawn before, and no two requests, stored in
\* any team or still in a handler's hands, carry the same request id.
C3_RequestIds == [](C3_Unique) /\ [][C3_Increasing]_vars

\* Two requests submitted at the same time are stored, one in each team.
C3_Witness ==
    /\ \A t \in DOMAIN teams : Len(Requests(t)) >= 1
    /\ \A p \in Procs : pc[p] = "s_dec"
    /\ loc[1].team # loc[2].team

\* C4: once a request's status is accepted, rejected or approved, no step
\* changes that status again.
C4_SingleTransition ==
    [][\A sl \in Slots :
          Requests(sl[1])[sl[2]].status # "pending" =>
              teams'[sl[1]].component_requests[sl[2]].status = Requests(sl[1])[sl[2]].status]_vars

\* the number of issued items of team t that accept made for request_id
AcceptIssuedCount(doc, request_id) ==
    Cardinality({k \in 1..Len(doc.issued_components) :
                    /\ doc.issued_components[k].request_id = <<>>
                    /\ doc.issued_components[k].issue_id = AcceptIssueId(now, request_id)})

\* C5: when an accept call returns and another accept call on the same
\* pending request ran at the same time, exactly one of the two has
\* succeeded, and the request is accepted with exactly one issued item.
C5_ExactlyOneAccept ==
    [][\A p \in Procs :
          (pc[p] \in {"p_inventory", "p_team"} /\ Returns(p) /\ loc[p].peers # {}) =>
              /\ \A outcome \in loc[p].peers : (outcome = "success") # (response' = 200)
              /\ teams'[loc[p].team].component_requests[loc[p].request_index].status = "accepted"
              /\ AcceptIssuedCount(teams'[loc[p].team], loc[p].req_id) = 1]_vars

\* C6: a process_request call, accept or reject, on a request that has left
\* pending answers 404 and leaves the teams and the stock as they are.
C6_SecondProcessFails ==
    [][\A p \in Procs : Free(p) =>
          \A t \in DOMAIN teams : \A i \in 1..Len(Requests(t)) :
             Requests(t)[i].status # "pending" =>
                \A action \in {"accept", "reject"}, tok \in InstructorTokens :
                   P_CallWith(p, t, Requests(t)[i].request_id, action, tok) =>
                      /\ response' = 404
                      /\ pc'[p] = "idle"
                      /\ teams' = teams
                      /\ available' = available]_vars

\* A request has been accepted and issued, and a later process_request call
\* has just been answered 404.
C6_Witness ==
    /\ response = 404
    /\ \E sl \in Slots :
          /\ Requests(sl[1])[sl[2]].status = "accepted"
          /\ Len(Issued(sl[1])) = 1
    /\ \A sl \in Slots : Requests(sl[1])[sl[2]].status # "pending"
    /\ \A p \in Procs : pc[p] = "idle"

\* C7: the reject of a request sets its status to rejected, creates no
\* issued item and gives the reserved quantity back to the component, so
\* that submit followed by reject leaves available as before the submit.
C7_RejectRestores ==
    [][\A p \in Procs :
          (pc[p] = "p_reject" /\ Returns(p) /\ response' = 200) =>
              LET t == loc[p].team
                  r == loc[p].target
              IN /\ teams'[t].component_requests[loc[p].request_index].status = "rejected"
                 /\ teams'[t].issued_components = Issued(t)
                 /\ available' = [available EXCEPT ![r.component_id] = @ + r.quantity]]_vars

Last(sq) == sq[Len(sq)]

\* C8: an admitted submit (the component exists and 1 <= qty <= available
\* when it is read) appends exactly one pending request to the caller's
\* team and nothing else, then takes exactly qty from that component and
\* nothing else, and answers 201.
C8_SubmitEffect ==
    [][\A p \in Procs :
          /\ (pc[p] = "idle" /\ pc'[p] = "s_counter") =>
                /\ loc'[p].comp_id \in Components
                /\ loc'[p].qty >= 1
                /\ loc'[p].qty <= available[loc'[p].comp_id]
                /\ loc'[p].tok.team_number = loc'[p].team
                /\ teams' = teams /\ available' = available
          /\ (pc[p] = "s_push" /\ pc'[p] = "s_dec") =>
                LET t == loc[p].team
                    after == teams'[t].component_requests
                IN /\ Len(after) = Len(Requests(t)) + 1
                   /\ SubSeq(after, 1, Len(Requests(t))) = Requests(t)
                   /\ Last(after).status = "pending"
                   /\ Last(after).component_id = loc[p].comp_id
                   /\ Last(after).quantity = loc[p].qty
                   /\ Last(after).request_id = loc[p].req_id
                   /\ teams'[t].issued_components = Issued(t)
                   /\ \A u \in DOMAIN teams : u # t => teams'[u] = teams[u]
                   /\ available' = available
          /\ (pc[p] = "s_dec" /\ Returns(p)) =>
                /\ response' = 201
                /\ available'[loc[p].comp_id] = available[loc[p].comp_id] - loc[p].qty
                /\ \A c \in Components : c # loc[p].comp_id => available'[c] = available[c]
                /\ teams' = teams]_vars

\* A submit for two units has been answered 201: its request is pending in
\* its team, the other team has none, and the stock is down by two.
C8_Witness ==
    /\ response = 201
    /\ \A p \in Procs : pc[p] = "idle"
    /\ Len(Requests("IPR002")) = 1 /\ Len(Requests("IPA001")) = 0
    /\ Requests("IPR002")[1].status = "pending"
    /\ Requests("IPR002")[1].quantity = 2
    /\ available[1] = available0[1] - 2
    /\ available[2] = available0[2]

\* every handler but p is idle
Quiet(p) == \A q \in Procs : q # p => pc[q] = "idle"

\* The system holds one request, of team t, pending, and the stock is what
\* its submit left: nothing else has happened.
SoleReservation(t) ==
    /\ Len(Requests(t)) = 1
    /\ \A u \in DOMAIN teams : u # t => Len(Requests(u)) = 0
    /\ \A u \in DOMAIN teams : Len(Issued(u)) = 0
    /\ Requests(t)[1].status = "pending"
    /\ available = [available0 EXCEPT ![Requests(t)[1].component_id] = @ - Requests(t)[1].quantity]

\* C9: accept of a pending request right after its own submit, nothing else
\* running, succeeds: the request is accepted and one issued item with
\* status issued, the request's component and quantity, and an expected
\* return 14 days after the issue date is appended to the team.
C9_AcceptAfterSubmit ==
    [][\A p \in Procs, t \in DOMAIN teams :
          (Quiet(p) /\ SoleReservation(t)) =>
             /\ \A tok \in InstructorTokens :
                   P_CallWith(p, t, Requests(t)[1].request_id, "accept", tok) =>
                      pc'[p] = "p_inventory"
             /\ (pc[p] = "p_inventory" /\ loc[p].team = t /\ pc'[p] # pc[p]) =>
                   pc'[p] = "p_team"
             /\ (pc[p] = "p_team" /\ loc[p].team = t /\ Returns(p)) =>
                   /\ response' = 200
                   /\ teams'[t].component_requests[1].status = "accepted"
                   /\ Len(teams'[t].issued_components) = 1
                   /\ teams'[t].issued_components[1].status = "issued"
                   /\ teams'[t].issued_components[1].component_id = Requests(t)[1].component_id
                   /\ teams'[t].issued_components[1].quantity = Requests(t)[1].quantity
                   /\ ParseDate(teams'[t].issued_components[1].expected_return.text)
                        = ParseDate(teams'[t].issued_components[1].issue_date.text) + 14]_vars

\* the requests of team t whose status becomes accepted in this step
TurnAccepted(t) ==
    {i \in 1..Len(Requests(t)) :
        /\ Requests(t)[i].status # "accepted"
        /\ teams'[t].component_requests[i].status = "accepted"}

\* this step appends an issued item made by accept to team t
AcceptIssues(t) ==
    /\ Len(teams'[t].issued_components) = Len(Issued(t)) + 1
    /\ Last(teams'[t].issued_components).request_id = <<>>

\* C10: accept is all or nothing.  A step turns a request accepted exactly
\* when it appends the request's issued item; the call step and the write
\* inside the open transaction change neither the teams nor the stock; an
\* accept that returns an error (component unavailable, or the transaction
\* failed) changes neither.
C10_AcceptAtomic ==
    [][/\ \A t \in DOMAIN teams :
             /\ TurnAccepted(t) # {} =>
                   /\ AcceptIssues(t)
                   /\ Cardinality(TurnAccepted(t)) = 1
                   /\ \A i \in TurnAccepted(t) :
                         /\ Requests(t)[i].status = "pending"
                         /\ Last(teams'[t].issued_components).component_id = Requests(t)[i].component_id
                         /\ Last(teams'[t].issued_components).quantity = Requests(t)[i].quantity
                         /\ available'[Requests(t)[i].component_id]
                              = available[Requests(t)[i].component_id] - Requests(t)[i].quantity
             /\ AcceptIssues(t) => TurnAccepted(t) # {}
       /\ \A p \in Procs :
             /\ (pc[p] = "idle" /\ pc'[p] = "p_inventory") =>
                   teams' = teams /\ available' = available
             /\ (pc[p] = "p_inventory" /\ pc'[p] = "p_team") =>
                   teams' = teams /\ available' = available
             /\ (pc[p] \in {"p_inventory", "p_team"} /\ Returns(p) /\ response' # 200) =>
                   teams' = teams /\ available' = available
       /\ \A p \in Procs : Free(p) =>
             \A t \in DOMAIN teams : \A i \in 1..Len(Requests(t)) :
                (Requests(t)[i].status = "pending"
                   /\ available[Requests(t)[i].component_id] < Requests(t)[i].quantity) =>
                   \A tok \in InstructorTokens :
                      P_CallWith(p, t, Requests(t)[i].request_id, "accept", tok) =>
                         /\ response' = 400
                         /\ teams' = teams /\ available' = available]_vars

\* A transaction has written the decrement of the stock and is going to
\* abort (its payload has no 'username'): the store still shows the request
\* pending, no issued item and the stock its submit left.
C10_Witness ==
    \E p \in Procs :
       /\ pc[p] = "p_team"
       /\ ~HasUsername(loc[p].tok)
       /\ Quiet(p)
       /\ SoleReservation(loc[p].team)

\* the stores a failing call must leave alone
StoresUnchanged == available' = available /\ teams' = teams /\ seq' = seq

\* C11: the append of the request record and the decrement of the stock
\* in submit are one atomic unit: the step that stores a request also
\* takes its quantity from available, and a submit takes stock only in the
\* step that stores its request, so that no state, whether the caller goes
\* on or stops there, shows one without the other.
C11_SubmitAtomic ==
    [][\A p \in Procs :
          /\ (pc[p] = "s_push" /\ pc'[p] # "s_push") =>
                available'[loc[p].comp_id] = available[loc[p].comp_id] - loc[p].qty
          /\ (pc[p] = "s_dec" /\ pc'[p] # "s_dec") =>
                Len(teams'[loc[p].team].component_requests) = Len(Requests(loc[p].team)) + 1]_vars

\* C12: a submit that fails (quantity below 1, unknown or missing
\* component, quantity above available) and a process_request that fails
\* (invalid action or missing id, unknown team, no pending request with
\* that id) leave the stock, the teams and the request-id counter as they
\* are.  A call either returns in its first step or is admitted: a call
\* that returns in its first step answers an error and changes nothing,
\* and a call is admitted only if none of the reasons to fail holds.
C12_FailuresChangeNothing ==
    [][\A p \in Procs :
          /\ (Free(p) /\ pc' = pc) =>
                /\ response' \in {400, 404, 500, FlaskError(500)}
                /\ StoresUnchanged
          /\ (pc[p] = "idle" /\ pc'[p] = "s_counter") =>
                /\ loc'[p].comp_id # FalsyComp
                /\ loc'[p].qty >= 1
                /\ loc'[p].comp_id \in Components
                /\ loc'[p].qty <= available[loc'[p].comp_id]
                /\ StoresUnchanged
          /\ (pc[p] = "idle" /\ pc'[p] \in {"p_reject", "p_inventory"}) =>
                /\ loc'[p].req_id # <<>>
                /\ loc'[p].action \in {"accept", "reject"}
                /\ loc'[p].team \in DOMAIN teams
                /\ loc'[p].request_index \in 1..Len(Requests(loc'[p].team))
                /\ Requests(loc'[p].team)[loc'[p].request_index].request_id = loc'[p].req_id
                /\ Requests(loc'[p].team)[loc'[p].request_index].status = "pending"
                /\ StoresUnchanged]_vars

\* A submit took the whole stock of the first component, and a call made
\* after it has been refused with 400: the request is still pending, the
\* counter stands at one and nothing is issued.
C12_Witness ==
    /\ response = 400
    /\ \A p \in Procs : pc[p] = "idle"
    /\ seq = 1
    /\ available[1] = 0
    /\ \E t \in DOMAIN teams : SoleReservation(t)

\* the positions <<team, index>> of the stored issued items
ItemSlots == {<<t, k>> \in (DOMAIN teams) \X (1..(MaxSeq + MaxIssued + 1)) : k <= Len(Issued(t))}

\* the issued item names the request: by its request_id field (approve),
\* or, having none, by the tail of the request id in its issue id (accept)
Names(item, req) ==
    IF item.request_id # <<>>
      THEN item.request_id = req.request_id
      ELSE LastChars(item.issue_id, 4) = LastChars(req.request_id, 4)

\* the requests of team t the item names, and the items that name a request
Owners(t, item) == {i \in 1..Len(Requests(t)) : Names(item, Requests(t)[i])}
ItemsOf(t, req) == {k \in 1..Len(Issued(t)) : Names(Issued(t)[k], req)}

\* C13: every issued item of a team belongs to exactly one request of that
\* team, which left pending by being accepted or approved (its status says
\* so and it carries no rejection), with the item's component and
\* quantity; and no request has more than one issued item.
C13_IssuedBelongs ==
    \A t \in DOMAIN teams :
       /\ \A k \in 1..Len(Issued(t)) :
             /\ Cardinality(Owners(t, Issued(t)[k])) = 1
             /\ \A i \in Owners(t, Issued(t)[k]) :
                   /\ Requests(t)[i].status \in {"accepted", "approved"}
                   /\ Requests(t)[i].resolution.kind # "array"
                   /\ Requests(t)[i].component_id = Issued(t)[k].component_id
                   /\ Requests(t)[i].quantity = Issued(t)[k].quantity
       /\ \A i \in 1..Len(Requests(t)) : Cardinality(ItemsOf(t, Requests(t)[i])) <= 1

\* C14: no two issued items, in the same team or in different teams, made
\* by accept or by approve, carry the same issue id.
C14_IssueIdsUnique ==
    \A a, b \in ItemSlots :
       a # b => Issued(a[1])[a[2]].issue_id # Issued(b[1])[b[2]].issue_id

\* the positions <<team, index>> of the stored member records
MemberSlots ==
    {<<t, i>> \in (DOMAIN teams) \X (1..2) : i <= Len(teams[t].members)}

\* C15: no roll number belongs to more than one member record, neither in
\* two teams nor twice in one team.
C15_RollsUnique ==
    \A a, b \in MemberSlots :
       a # b => teams[a[1]].members[a[2]] # teams[b[1]].members[b[2]]

\* C17: no call ends in an exception that nothing catches: every response
\* is one a handler made with standard_response.  (The safety part of the
\* claim; the handlers' waiting is not needed to refute it.)
C17_NoUncaught == response # FlaskError(500)

\* C18: accept leaves every available count as it is: a step changes
\* available only as the decrement of a submit, by the quantity requested,
\* or as the increment of a reject, by the quantity of the request.
C18_AcceptKeepsStock ==
    [][available' # available =>
          \E p \in Procs :
             \/ /\ pc[p] = "s_dec" /\ Returns(p)
                /\ available' = [available EXCEPT ![loc[p].comp_id] = @ - loc[p].qty]
             \/ /\ pc[p] = "p_reject" /\ Returns(p)
                /\ available' = [available EXCEPT ![loc[p].target.component_id] =
                                                    @ + loc[p].target.quantity]]_vars

\* C19: stock conservation.  Whenever no handler is running, every
\* component's initial available count equals its available count plus the
\* quantities of its pending, accepted and approved requests.
C19_StockConserved ==
    (\A p \in Procs : pc[p] = "idle") =>
        \A c \in Components : available0[c] = available[c] + Reserved(c)

\* who resolved the request and when, under whichever field names the
\* operation stores them
ResolutionOf(r) == <<r.resolution, r.processed_by, r.processed_at>>
NoResolutionYet == <<NoResolution, "", NoDate>>

\* C20: a request carries a resolution exactly when its status is not
\* pending, and the resolution is written once, by the step that moves the
\* request out of pending.
C20_ResolutionOnce ==
    [][\A t \in DOMAIN teams : \A i \in 1..Len(teams'[t].component_requests) :
          LET after == teams'[t].component_requests[i] IN
          /\ (ResolutionOf(after) # NoResolutionYet) <=> (after.status # "pending")
          /\ (i <= Len(Requests(t)) /\ ResolutionOf(after) # ResolutionOf(Requests(t)[i])) =>
                /\ Requests(t)[i].status = "pending"
                /\ after.status # "pending"]_vars

\* the fields that say which request, or which issued item, an entry is
RequestIdentity(r) == <<r.request_id, r.component_id, r.quantity, r.requested_by>>
ItemIdentity(it) == <<it.issue_id, it.component_id, it.quantity>>

\* C21: the three lists of a team are append-only.  In every step each
\* list is at least as long as before, and every entry it had is still at
\* its position with its identity fields (request id or issue id,
\* component, quantity, requester) unchanged.
C21_AppendOnly ==
    [][\A t \in DOMAIN teams :
          /\ Len(teams'[t].component_requests) >= Len(Requests(t))
          /\ \A i \in 1..Len(Requests(t)) :
                RequestIdentity(teams'[t].component_requests[i]) = RequestIdentity(Requests(t)[i])
          /\ Len(teams'[t].issued_components) >= Len(Issued(t))
          /\ \A k \in 1..Len(Issued(t)) :
                ItemIdentity(teams'[t].issued_components[k]) = ItemIdentity(Issued(t)[k])
          /\ Len(teams'[t].return_history) >= Len(teams[t].return_history)
          /\ \A k \in 1..Len(teams[t].return_history) :
                teams'[t].return_history[k] = teams[t].return_history[k]]_vars

\* A team's first request has been approved and issued, and a second
\* request has been appended behind it.
C21_Witness ==
    /\ \A p \in Procs : pc[p] = "idle"
    /\ \E t \in DOMAIN teams :
          /\ Len(Requests(t)) = 2
          /\ Requests(t)[1].status = "approved"
          /\ Requests(t)[2].status = "pending"
          /\ Len(Issued(t)) = 1

\* C22: every issued item has the status issued and every team's
\* return_history is empty.
C22_NeverReturned ==
    \A t \in DOMAIN teams :
       /\ \A k \in 1..Len(Issued(t)) : Issued(t)[k].status = "issued"
       /\ teams[t].return_history = <<>>

\* One team holds an item issued by accept, the other one issued by
\* approve, and every call has returned.
C22_Witness ==
    /\ \A p \in Procs : pc[p] = "idle"
    /\ \E t, u \in DOMAIN teams :
          /\ Len(Issued(t)) = 1 /\ Issued(t)[1].request_id = <<>>
          /\ Len(Issued(u)) = 1 /\ Issued(u)[1].request_id # <<>>

====
